---- MODULE Spec2Model ----
(***************************************************************************)
(* Result aggregation and selection engine of the music tagger:            *)
(* MusicTagger.search_track_info ("resolve"), MusicTagger._safe_search,    *)
(* MusicTagger._select_best_result ("select_best"), Config.get and Cache.  *)
(***************************************************************************)
EXTENDS Integers, Sequences, FiniteSets, TLC

(***************************************************************************)
(* Python floats.  Scores are IEEE-754 binary64 values; a positive value   *)
(* is [m, e] with value M * 2^e, where M is the 53-bit significand         *)
(* (2^52 <= M < 2^53) written as four little-endian limbs of 14 bits each. *)
(* Zero is the all-zero significand.                                       *)
(***************************************************************************)
LimbBase == 2 ^ 14

FZero == [m |-> <<0, 0, 0, 0>>, e |-> 0]

FIsZero(x) == x.m = <<0, 0, 0, 0>>

\* the number of doublings that bring n (0 < n < 2^11) into [2^10, 2^11)
RECURSIVE NormShift(_)
NormShift(n) == IF n >= 2 ^ 10 THEN 0 ELSE 1 + NormShift(2 * n)

\* float(n) for a small non-negative integer n: exact
FromInt(n) ==
    IF n = 0 THEN FZero
    ELSE LET j == NormShift(n)
         IN  [m |-> <<0, 0, 0, n * 2 ^ j>>, e |-> 0 - (42 + j)]

\* column k of the schoolbook product of two 4-limb significands
MulColumn(a, b, k) ==
    LET Term(i) == IF k - i >= 0 /\ k - i <= 3 THEN a[i + 1] * b[k - i + 1] ELSE 0
    IN  Term(0) + Term(1) + Term(2) + Term(3)

\* the eight limbs of the exact product, carries propagated
RECURSIVE MulLimbs(_, _, _, _)
MulLimbs(a, b, k, carry) ==
    IF k = 8 THEN <<>>
    ELSE LET s == MulColumn(a, b, k) + carry
         IN  <<s % LimbBase>> \o MulLimbs(a, b, k + 1, s \div LimbBase)

\* significand + 1, carries propagated (the result may reach 2^53)
RECURSIVE IncLimbs(_, _)
IncLimbs(q, i) ==
    IF i > 4 THEN q
    ELSE IF q[i] + 1 < LimbBase \/ i = 4 THEN [q EXCEPT ![i] = q[i] + 1]
    ELSE IncLimbs([q EXCEPT ![i] = 0], i + 1)

\* x * y rounded to nearest, ties to even (no overflow or underflow in range)
FMul(x, y) ==
    IF FIsZero(x) \/ FIsZero(y) THEN FZero
    ELSE
      LET P  == MulLimbs(x.m, y.m, 0, 0)
          r  == IF P[8] >= 2 ^ 7 THEN 11 ELSE 10
          H(i) == P[i + 4]
          Q(i) == (H(i) \div 2 ^ r) + (H(i + 1) % 2 ^ r) * 2 ^ (14 - r)
          q  == <<Q(0), Q(1), Q(2), Q(3)>>
          rb == (H(0) \div 2 ^ (r - 1)) % 2
          sticky == (H(0) % 2 ^ (r - 1)) # 0 \/ P[1] # 0 \/ P[2] # 0 \/ P[3] # 0
          up == rb = 1 /\ (sticky \/ q[1] % 2 = 1)
          q1 == IF up THEN IncLimbs(q, 1) ELSE q
          ex == x.e + y.e + 42 + r
      IN  IF q1[4] = 2 ^ 11
          THEN [m |-> <<0, 0, 0, 2 ^ 10>>, e |-> ex + 1]
          ELSE [m |-> q1, e |-> ex]

\* x < y for non-negative floats
FLess(x, y) ==
    IF FIsZero(y) THEN FALSE
    ELSE IF FIsZero(x) THEN TRUE
    ELSE IF x.e # y.e THEN x.e < y.e
    ELSE \E i \in 1..4 :
            /\ x.m[i] < y.m[i]
            /\ \A j \in (i + 1)..4 : x.m[j] = y.m[j]

\* the float literals of the program and of the configuration files
F1_0 == FromInt(1)

F2_0 == FromInt(2)

\* 1.1 = 0x1.199999999999ap+0
F1_1 == [m |-> <<6554, 9830, 6553, 1126>>, e |-> 0 - 52]

\* 0.8 = 0x1.999999999999ap-1
F0_8 == [m |-> <<6554, 9830, 6553, 1638>>, e |-> 0 - 53]

\* 1.21 = 0x1.35c28f5c28f5cp+0 (the product the bonuses are said to compound to)
F1_21 == [m |-> <<3932, 5898, 655, 1239>>, e |-> 0 - 52]

(***************************************************************************)
(* Python values.  None is a record of its own; in a string-typed field    *)
(* (artist, cover_url, release_id) the absent value is the string NoneStr. *)
(* A value of the configuration file carries its YAML type as a tag.       *)
(***************************************************************************)
None == [none |-> TRUE]

\* an exception object, as asyncio.gather(return_exceptions=True) hands back
PyException == [exception |-> TRUE]

NoneStr == "<None>"

\* truth value of an optional string: None and "" are falsy
StrTruthy(s) == s # NoneStr /\ s # ""

PyNone == [tag |-> "none"]

PyDict(f) == [tag |-> "dict", d |-> f]

PyInt(n) == [tag |-> "int", n |-> n]

PyFloat(f) == [tag |-> "float", f |-> f]

PyBool(b) == [tag |-> "bool", b |-> b]

PyStr(s) == [tag |-> "str", s |-> s]

EmptyDict == PyDict(<<>>)

IsDict(v) == v.tag = "dict"

\* dict.get(k, default)
DictGet(v, k, default) == IF k \in DOMAIN v.d THEN v.d[k] ELSE default

\* bool(v)
Truthy(v) ==
    CASE v.tag = "none"  -> FALSE
      [] v.tag = "bool"  -> v.b
      [] v.tag = "str"   -> v.s # ""
      [] v.tag = "int"   -> v.n # 0
      [] v.tag = "float" -> ~FIsZero(v.f)
      [] v.tag = "dict"  -> DOMAIN v.d # {}

\* Config.get(key, default): key is the dotted name split at the dots
RECURSIVE ConfigWalk(_, _, _)
ConfigWalk(value, keys, default) ==
    IF keys = <<>> THEN value
    ELSE IF IsDict(value)
         THEN ConfigWalk(DictGet(value, Head(keys), default), Tail(keys), default)
         ELSE default

ConfigGet(cfg, keys, default) == ConfigWalk(cfg, keys, default)

\* Config.min_confidence
default_min_confidence == 50

MinConfidence(cfg) ==
    DictGet(DictGet(cfg, "global", EmptyDict), "min_confidence",
            PyInt(default_min_confidence)).n

\* Config.get_source_config / Config.is_source_enabled
GetSourceConfig(cfg, name) == DictGet(cfg, name, PyNone)

IsSourceEnabled(cfg, name) ==
    LET sc == GetSourceConfig(cfg, name)
    IN  sc # PyNone /\ Truthy(DictGet(sc, "enabled", PyBool(FALSE)))

(***************************************************************************)
(* MusicTagger._initialize_sources: the adapters in registration order,    *)
(* each built only when its section is enabled and its credentials are set *)
(***************************************************************************)
SourceOrder == <<"musicbrainz", "spotify", "netease", "qqmusic">>

RequiredKeys(name) ==
    CASE name = "musicbrainz" -> {"app_name", "contact"}
      [] name = "spotify"     -> {"client_id", "client_secret"}
      [] name = "netease"     -> {"api_key", "api_secret"}
      [] name = "qqmusic"     -> {"api_key"}

SourceUsable(cfg, name) ==
    /\ IsSourceEnabled(cfg, name)
    /\ \A k \in RequiredKeys(name) :
          Truthy(DictGet(GetSourceConfig(cfg, name), k, PyNone))

\* the weight handed to the adapter's constructor
AdapterWeight(cfg, name) ==
    DictGet(ConfigGet(cfg, <<"global", "source_weights">>, EmptyDict), name,
            PyFloat(F1_0)).f

InitializeSources(cfg) ==
    SelectSeq(SourceOrder, LAMBDA name : SourceUsable(cfg, name))

(***************************************************************************)
(* MusicMetadata.  confidence is an integer 0..100; weighted_score is the  *)
(* attribute _select_best_result attaches (FZero until then, the default   *)
(* of the getattr in the max key).                                         *)
(***************************************************************************)
MusicMetadata(title, artist, album, confidence) ==
    [title |-> title, artist |-> artist, album |-> album,
     confidence |-> confidence, cover_url |-> NoneStr, release_id |-> NoneStr,
     source |-> NoneStr, weighted_score |-> FZero]

\* the source weight _select_best_result multiplies in
SelectWeight(cfg, source) ==
    DictGet(ConfigGet(cfg, <<"source_weights">>, EmptyDict), source,
            PyFloat(F1_0)).f

\* the completeness bonuses of _select_best_result
AlbumBonus(score, result) ==
    IF result.album # "" THEN FMul(score, F1_1) ELSE score

\* one bonus for the cover and one for the release
CoverBonusTwice(score, result) ==
    LET s1 == IF StrTruthy(result.cover_url) THEN FMul(score, F1_1) ELSE score
    IN  IF StrTruthy(result.release_id) THEN FMul(s1, F1_1) ELSE s1

CoverBonus(score, result) ==
    IF StrTruthy(result.cover_url) \/ StrTruthy(result.release_id)
    THEN FMul(score, F1_1) ELSE score

\* the score of one result: the body of the scoring loop
WeightedScore(cfg, result) ==
    CoverBonus(AlbumBonus(FMul(FromInt(result.confidence),
                               SelectWeight(cfg, result.source)), result), result)

\* the results with weighted_score set, in the same order
ScoreAll(cfg, results) ==
    [i \in 1..Len(results) |->
        [results[i] EXCEPT !.weighted_score = WeightedScore(cfg, results[i])]]

\* a maximum that keeps the last of equal keys
RECURSIVE MaxIndexLast(_, _, _)
MaxIndexLast(scored, i, best) ==
    IF i > Len(scored) THEN best
    ELSE IF FLess(scored[i].weighted_score, scored[best].weighted_score)
         THEN MaxIndexLast(scored, i + 1, best)
         ELSE MaxIndexLast(scored, i + 1, i)

\* max(results, key=weighted_score): the index kept is replaced only by a
\* strictly greater key, so the first maximal element wins
RECURSIVE MaxIndex(_, _, _)
MaxIndex(scored, i, best) ==
    IF i > Len(scored) THEN best
    ELSE IF FLess(scored[best].weighted_score, scored[i].weighted_score)
         THEN MaxIndex(scored, i + 1, i)
         ELSE MaxIndex(scored, i + 1, best)

\* the index in results of the value _select_best_result returns (0: None)
SelectBestIndex(cfg, results) ==
    IF results = <<>> THEN 0 ELSE MaxIndex(ScoreAll(cfg, results), 2, 1)

\* a selection that falls back to the best of the candidates at or above
\* the threshold
SelectBestPassing(cfg, results) ==
    LET passing == SelectSeq(results,
                       LAMBDA r : r.confidence >= MinConfidence(cfg))
    IN  IF results = <<>> THEN None
        ELSE IF passing = <<>>
             THEN ScoreAll(cfg, results)[SelectBestIndex(cfg, results)]
             ELSE ScoreAll(cfg, passing)[SelectBestIndex(cfg, passing)]

SelectBestResult(cfg, results) ==
    IF results = <<>> THEN None
    ELSE ScoreAll(cfg, results)[SelectBestIndex(cfg, results)]

(***************************************************************************)
(* Cache: one file per key under the cache directory.  A file is Missing,  *)
(* Unreadable (open raises), Corrupt (not JSON), NoTimestamp (JSON without *)
(* a "timestamp"), [timestamp] alone (JSON without a "content") or an      *)
(* entry [timestamp, content].  The file name is the MD5 of the key, taken *)
(* to be collision free.  Time is in days.                                 *)
(***************************************************************************)
expire_days == 30

Missing == [file |-> "missing"]

Corrupt == [file |-> "corrupt"]

Unreadable == [file |-> "unreadable"]

NoTimestamp == [file |-> "no_timestamp"]

NoContent(timestamp) == [file |-> "no_content", timestamp |-> timestamp]

Entry(timestamp, content) == [timestamp |-> timestamp, content |-> content]

\* MusicTagger._create_cache_key
CreateCacheKey(title, artist) ==
    "search_" \o title \o "_" \o (IF StrTruthy(artist) THEN artist ELSE "unknown")

\* cache_file.unlink(): the file is removed, or the call raises and the file
\* stays
UnlinkOutcomes == {"ok", "failed"}

\* Cache.get: the branch taken for a file.  "missing": the early return;
\* "unlink": the expired branch or the except branch, both of which unlink;
\* "serve": return data["content"]
CacheGetBranch(f, time) ==
    IF f = Missing THEN "missing"
    ELSE IF f \in {Unreadable, Corrupt, NoTimestamp} THEN "unlink"
    ELSE IF time - f.timestamp > expire_days THEN "unlink"
    ELSE IF "content" \in DOMAIN f THEN "serve"
    ELSE "unlink"

\* Cache.get: the value returned
CacheGetValue(files, key, time) ==
    IF CacheGetBranch(files[key], time) = "serve" THEN files[key].content
    ELSE None

\* Cache.get: an exception leaves get.  The unlink of the expired branch is
\* inside the try, the unlink of the except branch is not inside any
CacheGetRaises(files, key, time, unlink) ==
    CacheGetBranch(files[key], time) = "unlink" /\ unlink = "failed"

\* a get that unlinks whatever file it finds
CacheGetFilesAlwaysUnlink(files, key, time, unlink) ==
    IF CacheGetBranch(files[key], time) # "missing" /\ unlink = "ok"
    THEN [files EXCEPT ![key] = Missing]
    ELSE files

\* Cache.get: the files afterwards
CacheGetFiles(files, key, time, unlink) ==
    IF CacheGetBranch(files[key], time) = "unlink" /\ unlink = "ok"
    THEN [files EXCEPT ![key] = Missing]
    ELSE files

\* Cache.set: the files afterwards.  outcome "ok": the entry is written;
\* "open_failed": open() raised and nothing changed; "dump_failed": the file
\* was opened for writing (truncated) and json.dump raised.  The payloads
\* are mappings from strings to strings, integers and None, which
\* json.load gives back as json.dump was given them.
SetOutcomes == {"ok", "open_failed", "dump_failed"}

\* a set that keeps an entry that is already there
CacheSetIfAbsent(files, key, value, time, outcome) ==
    CASE outcome = "ok" ->
            IF files[key] = Missing
            THEN [files EXCEPT ![key] = Entry(time, value)]
            ELSE files
      [] outcome = "open_failed" -> files
      [] outcome = "dump_failed" -> [files EXCEPT ![key] = Corrupt]

CacheSetFiles(files, key, value, time, outcome) ==
    CASE outcome = "ok" -> [files EXCEPT ![key] = Entry(time, value)]
      [] outcome = "open_failed" -> files
      [] outcome = "dump_failed" -> [files EXCEPT ![key] = Corrupt]

\* a payload that leaves the cover out
CachePayloadNoCover(best) ==
    [title |-> best.title, artist |-> best.artist, album |-> best.album,
     confidence |-> best.confidence, source |-> best.source,
     release_id |-> best.release_id, cover_url |-> NoneStr]

\* the payload search_track_info stores for its winner
CachePayload(best) ==
    [title |-> best.title, artist |-> best.artist, album |-> best.album,
     confidence |-> best.confidence, source |-> best.source,
     release_id |-> best.release_id, cover_url |-> best.cover_url]

\* the empty mapping as a content: falsy in "if cached_result"
EmptyPayload == [empty |-> TRUE]

\* "if cached_result"
PayloadTruthy(cached) == cached # None /\ cached # EmptyPayload

\* the keys the rebuild subscripts; release_id and cover_url are read with
\* .get.  Without one of these keys the rebuild raises, the exception is
\* logged and the call goes on to the fan-out
RebuildKeys == {"title", "artist", "album", "confidence", "source"}

RebuildRaises(cached) == ~(RebuildKeys \subseteq DOMAIN cached)

\* cached.get(k)
PayloadGet(cached, k) == IF k \in DOMAIN cached THEN cached[k] ELSE NoneStr

\* a rebuild that forgets the cover
FromCacheNoCover(cached) ==
    [MusicMetadata(cached.title, cached.artist, cached.album, 0)
        EXCEPT !.confidence = cached.confidence, !.source = cached.source,
               !.release_id = PayloadGet(cached, "release_id")]

\* the MusicMetadata search_track_info rebuilds from a cached payload
FromCache(cached) ==
    [MusicMetadata(cached.title, cached.artist, cached.album, 0)
        EXCEPT !.confidence = cached.confidence, !.source = cached.source,
               !.release_id = PayloadGet(cached, "release_id"),
               !.cover_url = PayloadGet(cached, "cover_url")]

\* the call is answered from the cache: a truthy payload that can be rebuilt
CacheHit(cached) == PayloadTruthy(cached) /\ ~RebuildRaises(cached)

(***************************************************************************)
(* Configuration files.  Config._load_config returns the built-in default  *)
(* when there is no file, and otherwise the user's file as it is.          *)
(***************************************************************************)
GlobalSection(min_confidence, search_timeout, source_weights) ==
    PyDict([min_confidence |-> PyInt(min_confidence),
            search_timeout |-> PyInt(search_timeout),
            source_weights |-> PyDict(source_weights)])

MusicBrainzSection(enabled) ==
    PyDict([enabled |-> PyBool(enabled), app_name |-> PyStr("MusicTagger"),
            version |-> PyStr("1.0"), contact |-> PyStr("your@email.com")])

SpotifySection(enabled, secret) ==
    PyDict([enabled |-> PyBool(enabled), client_id |-> PyStr(secret),
            client_secret |-> PyStr(secret)])

NeteaseSection(enabled, secret) ==
    PyDict([enabled |-> PyBool(enabled), api_key |-> PyStr(secret),
            api_secret |-> PyStr(secret)])

QQSection(enabled, secret) ==
    PyDict([enabled |-> PyBool(enabled), api_key |-> PyStr(secret)])

\* default_config of Config._load_config: only MusicBrainz has credentials
DefaultConfig ==
    PyDict([global |-> GlobalSection(50, 30,
                [musicbrainz |-> PyFloat(F1_0), spotify |-> PyFloat(F1_0),
                 netease |-> PyFloat(F0_8), qqmusic |-> PyFloat(F0_8)]),
            musicbrainz |-> MusicBrainzSection(TRUE),
            spotify |-> SpotifySection(FALSE, ""),
            netease |-> NeteaseSection(TRUE, ""),
            qqmusic |-> QQSection(TRUE, "")])

\* a user file with the documented options: Spotify alone, a shorter
\* timeout, Spotify preferred over MusicBrainz
UserConfig ==
    PyDict([global |-> GlobalSection(50, 10,
                [musicbrainz |-> PyFloat(F0_8), spotify |-> PyFloat(F2_0)]),
            musicbrainz |-> MusicBrainzSection(FALSE),
            spotify |-> SpotifySection(TRUE, "key")])

\* a user file that also has a top-level source_weights section, the key
\* _select_best_result reads
TopLevelConfig ==
    PyDict([global |-> GlobalSection(60, 30, [spotify |-> PyFloat(F0_8)]),
            source_weights |-> PyDict([spotify |-> PyFloat(F2_0)]),
            musicbrainz |-> MusicBrainzSection(TRUE),
            spotify |-> SpotifySection(TRUE, "key")])

\* a user file whose top-level source_weights section gives Spotify no
\* weight at all
MutedConfig ==
    PyDict([global |-> GlobalSection(50, 30, [spotify |-> PyFloat(F1_0)]),
            source_weights |-> PyDict([spotify |-> PyFloat(FZero)]),
            musicbrainz |-> MusicBrainzSection(TRUE),
            spotify |-> SpotifySection(TRUE, "key")])

\* a user file with no global section and no adapter enabled
NoSourceConfig ==
    PyDict([musicbrainz |-> MusicBrainzSection(FALSE),
            qqmusic |-> QQSection(TRUE, "")])

Configs ==
    {DefaultConfig, UserConfig, TopLevelConfig, MutedConfig, NoSourceConfig}

\* Config.get_enabled_sources, called by _initialize_sources, calls .get on
\* every top-level value but global: the tagger is constructed only when
\* each of them is a mapping
ConfigLoadable(cfg) ==
    \A k \in DOMAIN cfg.d \ {"global"} : IsDict(cfg.d[k])

(***************************************************************************)
(* Queries and adapter answers                                             *)
(***************************************************************************)
\* <<title, artist>>: an empty title, no title, and a full query
Queries == {<<"", NoneStr>>, <<NoneStr, "Singer">>, <<"Song", "Singer">>}

CacheKeys == {CreateCacheKey(q[1], q[2]) : q \in Queries}

\* the MusicMetadata an adapter builds for the first match of the service
Found(source, album, confidence, cover_url, release_id) ==
    [MusicMetadata("Song", "Singer", album, confidence)
        EXCEPT !.source = source, !.cover_url = cover_url,
               !.release_id = release_id]

\* SpotifySource.search: confidence = (title_ratio + artist_ratio) / 2, with
\* artist_ratio = 100 for a query without artist.  The ratios are results of
\* fuzz.ratio, 0..100; the sums used here are even, so that the confidence
\* is a whole number
SpotifyConfidence(title_ratio, artist_ratio, a) ==
    (title_ratio + (IF StrTruthy(a) THEN artist_ratio ELSE 100)) \div 2

\* MusicBrainzSource.search, NeteaseMusicSource.search, QQMusicSource.search:
\* confidence is left at the default of MusicMetadata.__init__
default_confidence == 0

\* what the search of an adapter may return for the query ("Song",
\* "Singer").  Spotify: a complete match of low confidence, a bare match at
\* the default threshold, a complete match of high confidence; it sets no
\* release_id.  MusicBrainz: a match with release and cover, and one without
\* a release ('' for the id).  NetEase and QQ: album and cover.
Catalog(source) ==
    CASE source = "spotify" ->
            {Found(source, "Album", SpotifyConfidence(0, 90, "Singer"), "url", NoneStr),
             Found(source, "", SpotifyConfidence(100, 0, "Singer"), NoneStr, NoneStr),
             Found(source, "Album", SpotifyConfidence(90, 100, "Singer"), "url", NoneStr)}
      [] source = "musicbrainz" ->
            {Found(source, "Album", default_confidence, "url", "rid"),
             Found(source, "", default_confidence, NoneStr, "")}
      [] OTHER ->
            {Found(source, "Album", default_confidence, "url", NoneStr)}

\* MusicSource.search: a match, no match, or an exception
SearchOutcomes(source) ==
    {[kind |-> "found", value |-> c] : c \in Catalog(source)}
        \cup {[kind |-> "not_found"], [kind |-> "raised"]}

\* contents a cache file may hold that this call did not write: a payload
\* of an earlier run, one without the optional keys, one without the album,
\* and the empty mapping
OldPayload ==
    [title |-> "Song", artist |-> "Singer", album |-> "Old", confidence |-> 10,
     source |-> "spotify", release_id |-> NoneStr, cover_url |-> "old_url"]

PartialPayload ==
    [title |-> "Song", artist |-> "Singer", album |-> "Old", confidence |-> 70,
     source |-> "spotify"]

MalformedPayload == [title |-> "Song", artist |-> "Singer"]

ForeignPayloads == {OldPayload, PartialPayload, MalformedPayload, EmptyPayload}

\* the file of the query's key when the tagger is constructed
StoredFiles == {Missing} \cup {Entry(0, p) : p \in ForeignPayloads}

LiveKey == CreateCacheKey("Song", "Singer")

(***************************************************************************)
(* Bounds of the model                                                     *)
(***************************************************************************)
\* the wall clock (days) stops here
MaxNow == 31

\* seconds the fan-out clock advances in one step
WaitStep == 15

\* longest list handed to select_best when it is checked on its own
MaxResults == 2

(***************************************************************************)
(* State                                                                   *)
(***************************************************************************)
VARIABLES
    config,     \* Config.config, loaded at construction
    sources,    \* MusicTagger.sources
    cache,      \* the files of the cache directory, by key
    now,        \* time.time(), in days
    pc,         \* where search_track_info is: "idle", "waiting", "done"
    title,      \* the arguments of the running call
    artist,
    cache_key,  \* the key derived by the call (NoneStr: none derived)
    cache_ops,  \* the Cache calls the call has made
    hit,        \* the call returned from the cache
    tasks,      \* the adapter tasks of the call, in the order of sources
    deadline,   \* the timeout handed to asyncio.wait_for, in seconds
    waited,     \* seconds since the fan-out started
    input,      \* the list handed to _select_best_result
    results,    \* that list after scoring
    best_idx,   \* the index in results of the selected result (0: none)
    ret,        \* the value the call returns
    cache_before, \* the files when the call started
    won         \* by key: the last result a fan-out returned, and when

vars == <<config, sources, cache, now, pc, title, artist, cache_key, cache_ops,
          hit, tasks, deadline, waited, input, results, best_idx, ret,
          cache_before, won>>

callVars == <<title, artist, cache_key, cache_ops, hit, tasks, deadline,
              waited, input, results, best_idx, ret>>

(***************************************************************************)
(* search_track_info, step by step                                         *)
(***************************************************************************)
\* "if title is None"
TitleIsNone(t) == t = NoneStr

\* "if not title"
TitleMissing(t) == ~StrTruthy(t)

\* the timeout of the wait_for
default_search_timeout == 30

SearchTimeout(cfg) ==
    ConfigGet(cfg, <<"search_timeout">>, PyInt(default_search_timeout)).n

\* _safe_search: the value of the adapter's task
SafeSearch(outcome) ==
    IF outcome.kind = "found" THEN outcome.value ELSE None

\* order: the task's place among the tasks in order of completion (0: not
\* completed)
PendingTask == [st |-> "pending", value |-> None, raised |-> FALSE, order |-> 0]

\* the number of tasks that are done
Completed(ts) == Cardinality({i \in 1..Len(ts) : ts[i].st = "done"})

\* a gather that hands the values back in the order of completion
GatherValuesByCompletion(ts) ==
    [k \in 1..Len(ts) |->
        ts[CHOOSE i \in 1..Len(ts) : ts[i].order = k].value]

\* asyncio.gather(*tasks, return_exceptions=True): the task values in the
\* order of the tasks, whatever the order of completion
GatherValues(ts) == [i \in 1..Len(ts) |-> ts[i].value]

\* a loop that gives up at the first value it cannot use
RECURSIVE CollectResultsUntilNone(_)
CollectResultsUntilNone(values) ==
    IF values = <<>> \/ Head(values) = None \/ Head(values) = PyException
    THEN <<>>
    ELSE <<Head(values)>> \o CollectResultsUntilNone(Tail(values))

\* the loop over completed_tasks: an exception is logged, every other value
\* that is not None is appended
CollectResults(values) ==
    SelectSeq(values, LAMBDA v : v # PyException /\ v # None)

\* a threshold on the score used for ranking
BelowThresholdWeighted(cfg, best) ==
    best = None \/ FLess(best.weighted_score, FromInt(MinConfidence(cfg)))

\* "not best_result or best_result.confidence < self.config.min_confidence"
BelowThreshold(cfg, best) == best = None \/ best.confidence < MinConfidence(cfg)

idleCall ==
    /\ title = NoneStr /\ artist = NoneStr /\ cache_key = NoneStr
    /\ cache_ops = <<>> /\ hit = FALSE /\ tasks = <<>> /\ deadline = 0
    /\ waited = 0 /\ input = <<>> /\ results = <<>> /\ best_idx = 0
    /\ ret = None

Init ==
    /\ config \in {c \in Configs : ConfigLoadable(c)}
    /\ sources = InitializeSources(config)
    /\ cache \in {[k \in CacheKeys |-> IF k = LiveKey THEN f ELSE Missing] :
                    f \in StoredFiles}
    /\ cache_before = cache
    /\ now = 0
    /\ pc = "idle"
    /\ idleCall
    /\ won = [k \in CacheKeys |-> None]

\* the call up to its first suspension: the title check, the cache lookup
\* (outside the try of the fan-out, so what Cache.get raises leaves the
\* call) and, on a miss, the creation of one task per adapter
Begin(t, a, unlink) ==
    /\ pc = "idle"
    /\ title' = t /\ artist' = a
    /\ cache_before' = cache
    /\ IF TitleMissing(t)
       THEN /\ pc' = "done" /\ ret' = None
            /\ UNCHANGED <<cache, cache_key, cache_ops, hit, tasks, deadline>>
       ELSE LET key == CreateCacheKey(t, a)
                cached == CacheGetValue(cache, key, now)
            IN  /\ cache_key' = key
                /\ cache_ops' = <<"get">>
                /\ cache' = CacheGetFiles(cache, key, now, unlink)
                /\ IF CacheGetRaises(cache, key, now, unlink)
                   THEN /\ pc' = "raised"
                        /\ UNCHANGED <<ret, hit, tasks, deadline>>
                   ELSE IF CacheHit(cached)
                   THEN /\ pc' = "done" /\ ret' = FromCache(cached) /\ hit' = TRUE
                        /\ UNCHANGED <<tasks, deadline>>
                   ELSE /\ pc' = "waiting"
                        /\ tasks' = [i \in 1..Len(sources) |-> PendingTask]
                        /\ deadline' = SearchTimeout(config)
                        /\ UNCHANGED <<ret, hit>>
    /\ UNCHANGED <<config, sources, now, waited, input, results, best_idx, won>>

\* the search of adapter i ends before the deadline
AdapterFinish(i, outcome) ==
    /\ pc = "waiting"
    /\ i \in 1..Len(tasks)
    /\ tasks[i].st = "pending"
    /\ waited < deadline
    /\ tasks' = [tasks EXCEPT ![i] = [st |-> "done", value |-> SafeSearch(outcome),
                                      raised |-> outcome.kind = "raised",
                                      order |-> Completed(tasks) + 1]]
    /\ UNCHANGED <<config, sources, cache, now, pc, title, artist, cache_key,
                   cache_ops, hit, deadline, waited, input, results, best_idx,
                   ret, cache_before, won>>

\* time passes while a task is outstanding
WaitTick ==
    /\ pc = "waiting"
    /\ \E i \in 1..Len(tasks) : tasks[i].st = "pending"
    /\ waited < deadline
    /\ waited' = waited + WaitStep
    /\ UNCHANGED <<config, sources, cache, now, pc, title, artist, cache_key,
                   cache_ops, hit, tasks, deadline, input, results, best_idx,
                   ret, cache_before, won>>

\* every task is done: the gather returns, the results are collected, the
\* best is selected, checked against the threshold, cached and returned
GatherDone(outcome) ==
    /\ pc = "waiting"
    /\ \A i \in 1..Len(tasks) : tasks[i].st = "done"
    /\ LET collected == CollectResults(GatherValues(tasks))
           best == SelectBestResult(config, collected)
       IN  /\ input' = collected
           /\ IF collected = <<>>
              THEN /\ ret' = None
                   /\ UNCHANGED <<results, best_idx, cache, cache_ops>>
              ELSE /\ results' = ScoreAll(config, collected)
                   /\ best_idx' = SelectBestIndex(config, collected)
                   /\ IF BelowThreshold(config, best)
                      THEN /\ ret' = None
                           /\ UNCHANGED <<cache, cache_ops>>
                      ELSE /\ cache' = CacheSetFiles(cache, cache_key,
                                           CachePayload(best), now, outcome)
                           /\ cache_ops' = Append(cache_ops, "set")
                           /\ ret' = best
    /\ pc' = "done"
    /\ UNCHANGED <<config, sources, now, title, artist, cache_key, hit, tasks,
                   deadline, waited, cache_before, won>>

\* a handler that cancels nothing
CancelNone(ts) == ts

\* "for task in tasks: if not task.done(): task.cancel()"
CancelOutstanding(ts) ==
    [i \in 1..Len(ts) |->
        IF ts[i].st = "pending" THEN [ts[i] EXCEPT !.st = "cancelled"] ELSE ts[i]]

\* asyncio.TimeoutError: the outstanding tasks are cancelled; results is
\* still the empty list it was created as, so the call returns None
Timeout ==
    /\ pc = "waiting"
    /\ \E i \in 1..Len(tasks) : tasks[i].st = "pending"
    /\ waited >= deadline
    /\ tasks' = CancelOutstanding(tasks)
    /\ ret' = None
    /\ pc' = "done"
    /\ UNCHANGED <<config, sources, cache, now, title, artist, cache_key,
                   cache_ops, hit, deadline, waited, input, results, best_idx,
                   cache_before, won>>

\* the caller has the result; the next call may start
Return ==
    /\ pc \in {"done", "raised"}
    /\ pc' = "idle"
    /\ won' = IF ret # None /\ ~hit
              THEN [won EXCEPT ![cache_key] =
                      [value |-> ret, at |-> now,
                       stored |-> cache[cache_key] =
                                    Entry(now, CachePayload(ret))]]
              ELSE won
    /\ title' = NoneStr /\ artist' = NoneStr /\ cache_key' = NoneStr
    /\ cache_ops' = <<>> /\ hit' = FALSE /\ tasks' = <<>> /\ deadline' = 0
    /\ waited' = 0 /\ input' = <<>> /\ results' = <<>> /\ best_idx' = 0
    /\ ret' = None
    /\ UNCHANGED <<config, sources, cache, now, cache_before>>

\* days pass between calls
Tick(d) ==
    /\ pc = "idle"
    /\ now + d <= MaxNow
    /\ now' = now + d
    /\ UNCHANGED <<config, sources, cache, pc, callVars, cache_before, won>>

Next ==
    \/ \E q \in Queries : \E u \in UnlinkOutcomes : Begin(q[1], q[2], u)
    \/ \E i \in 1..Len(sources) :
          \E o \in SearchOutcomes(sources[i]) : AdapterFinish(i, o)
    \/ WaitTick
    \/ \E o \in SetOutcomes : GatherDone(o)
    \/ Timeout
    \/ Return
    \/ \E d \in {expire_days, expire_days + 1} : Tick(d)

Spec == Init /\ [][Next]_vars

(***************************************************************************)
(* _select_best_result on its own: any configuration, any list of up to    *)
(* MaxResults candidates                                                   *)
(***************************************************************************)
\* <<album, confidence, cover_url, release_id>>: every combination of the
\* bonus conditions occurs
SelectShapes ==
    {<<"", 50, NoneStr, NoneStr>>, <<"Album", 50, NoneStr, NoneStr>>,
     <<"", 50, "url", "rid">>, <<"Album", 50, "url", "rid">>,
     <<"Album", 45, NoneStr, "rid">>, <<"", 45, "url", NoneStr>>,
     <<"Album", 55, "url", NoneStr>>}

SelectCandidates ==
    {Found(source, sh[1], sh[2], sh[3], sh[4]) :
        source \in {"musicbrainz", "spotify"}, sh \in SelectShapes}

SelectInputs == UNION {[1..n -> SelectCandidates] : n \in 0..MaxResults}

SelectInit ==
    /\ config \in {c \in Configs : ConfigLoadable(c)}
    /\ sources = InitializeSources(config)
    /\ cache = [k \in CacheKeys |-> Missing]
    /\ cache_before = cache
    /\ now = 0
    /\ pc = "select"
    /\ title = NoneStr /\ artist = NoneStr /\ cache_key = NoneStr
    /\ cache_ops = <<>> /\ hit = FALSE /\ tasks = <<>> /\ deadline = 0
    /\ waited = 0 /\ results = <<>> /\ best_idx = 0 /\ ret = None
    /\ input \in SelectInputs
    /\ won = [k \in CacheKeys |-> None]

\* one call of _select_best_result(input)
SelectBest ==
    /\ pc = "select"
    /\ results' = ScoreAll(config, input)
    /\ best_idx' = SelectBestIndex(config, input)
    /\ ret' = SelectBestResult(config, input)
    /\ pc' = "selected"
    /\ UNCHANGED <<config, sources, cache, now, title, artist, cache_key,
                   cache_ops, hit, tasks, deadline, waited, input,
                   cache_before, won>>

SelectNext == SelectBest

SelectSpec == SelectInit /\ [][SelectNext]_vars

(***************************************************************************)
(* Cache on its own: get and set called with any key on any files          *)
(***************************************************************************)
CacheSpecKeys == {LiveKey, CreateCacheKey("Song", NoneStr)}

\* the payloads handed to set
SetPayloads == {CachePayload(c) : c \in Catalog("spotify")}

\* the files of the cache directory when the Cache is constructed
CacheSpecFiles ==
    {[k \in CacheSpecKeys |-> IF k = LiveKey THEN f ELSE g] :
        f \in {Missing, Unreadable, Corrupt, NoTimestamp, NoContent(0),
               Entry(0, OldPayload), Entry(0, MalformedPayload)},
        g \in {Missing, Entry(0, OldPayload)}}

CacheInit ==
    /\ config = DefaultConfig
    /\ sources = InitializeSources(config)
    /\ cache \in CacheSpecFiles
    /\ cache_before = cache
    /\ now = 0
    /\ pc = "ready"
    /\ idleCall
    /\ won = [k \in CacheKeys |-> None]

\* Cache.get(key); pc tells whether it returned or raised
CacheGet(key, unlink) ==
    /\ cache_before' = cache
    /\ cache_key' = key
    /\ cache_ops' = <<"get">>
    /\ cache' = CacheGetFiles(cache, key, now, unlink)
    /\ IF CacheGetRaises(cache, key, now, unlink)
       THEN pc' = "get_raised" /\ ret' = None
       ELSE pc' = "got" /\ ret' = CacheGetValue(cache, key, now)
    /\ input' = <<>>
    /\ UNCHANGED <<config, sources, now, title, artist, hit, tasks, deadline,
                   waited, results, best_idx, won>>

\* Cache.set(key, value); set returns None whatever happens, pc keeps the
\* outcome of the write
CacheSet(key, value, outcome) ==
    /\ cache_before' = cache
    /\ cache_key' = key
    /\ cache_ops' = <<"set">>
    /\ input' = <<value>>
    /\ cache' = CacheSetFiles(cache, key, value, now, outcome)
    /\ pc' = "set_" \o outcome
    /\ ret' = None
    /\ UNCHANGED <<config, sources, now, title, artist, hit, tasks, deadline,
                   waited, results, best_idx, won>>

\* days pass between two Cache calls
CacheTick(d) ==
    /\ now + d <= MaxNow
    /\ now' = now + d
    /\ pc' = "ready"
    /\ UNCHANGED <<config, sources, cache, callVars, cache_before, won>>

CacheNext ==
    \/ \E k \in CacheSpecKeys : \E u \in UnlinkOutcomes : CacheGet(k, u)
    \/ \E k \in CacheSpecKeys : \E v \in SetPayloads :
          \E o \in SetOutcomes : CacheSet(k, v, o)
    \/ \E d \in {expire_days, expire_days + 1} : CacheTick(d)

CacheSpec == CacheInit /\ [][CacheNext]_vars

Range(seq) == {seq[i] : i \in 1..Len(seq)}

(***************************************************************************)
(* The specifications below exercise one function each.  The variables     *)
(* they do not use stay as in a tagger that has just been constructed with *)
(* the default configuration.                                              *)
(***************************************************************************)
builtVars == <<config, sources, now, won>>

TaggerBuilt ==
    /\ config = DefaultConfig
    /\ sources = InitializeSources(config)
    /\ now = 0
    /\ won = [k \in CacheKeys |-> None]

(***************************************************************************)
(* _create_cache_key on its own: a candidate is stored under the key of    *)
(* one query, then the key of another query is looked up                   *)
(***************************************************************************)
KeyInit ==
    /\ TaggerBuilt
    /\ LET queries == {<<t, a>> : t \in {"a", "a_b"},
                                  a \in {NoneStr, "", "unknown", "c", "b_c"}}
       IN  input \in queries \X queries
    /\ pc = "keys"
    /\ cache = <<>> /\ cache_before = <<>>
    /\ title = NoneStr /\ artist = NoneStr /\ cache_key = NoneStr
    /\ cache_ops = <<>> /\ hit = FALSE /\ tasks = <<>> /\ deadline = 0
    /\ waited = 0 /\ results = <<>> /\ best_idx = 0 /\ ret = None

\* results: the keys of the two queries; cache: the files after
\* cache.set(key of the first query, payload); ret: what
\* cache.get(key of the second query) returns then
StoreThenLookup ==
    /\ pc = "keys"
    /\ LET k1 == CreateCacheKey(input[1][1], input[1][2])
           k2 == CreateCacheKey(input[2][1], input[2][2])
           empty == [k \in {k1, k2} |-> Missing]
           payload == CachePayload(MusicMetadata(input[1][1], input[1][2], "", 0))
           files == CacheSetFiles(empty, k1, payload, now, "ok")
       IN  /\ results' = <<k1, k2>>
           /\ cache_before' = empty
           /\ cache' = files
           /\ ret' = CacheGetValue(files, k2, now)
    /\ pc' = "derived"
    /\ UNCHANGED <<builtVars, title, artist, cache_key, cache_ops, hit, tasks,
                   deadline, waited, input, best_idx>>

KeySpec == KeyInit /\ [][StoreThenLookup]_vars

(***************************************************************************)
(* The search of one adapter on its own.  input is <<source, title_ratio,  *)
(* artist_ratio>>: the adapter and the two results of fuzz.ratio for the   *)
(* first match of the service; artist is the artist of the query.          *)
(***************************************************************************)
\* the confidence of the MusicMetadata the adapter returns
SearchConfidence(source, title_ratio, artist_ratio, a) ==
    IF source = "spotify" THEN SpotifyConfidence(title_ratio, artist_ratio, a)
    ELSE default_confidence

AdapterInit ==
    /\ TaggerBuilt
    /\ input \in {<<s, tr, ar>> :
                    s \in Range(SourceOrder), tr \in {0, 40, 60, 90, 100},
                    ar \in {0, 40, 60, 90, 100}}
    /\ title = "Song"
    /\ artist \in {NoneStr, "", "Singer"}
    /\ pc = "search"
    /\ cache = <<>> /\ cache_before = <<>>
    /\ cache_key = NoneStr
    /\ cache_ops = <<>> /\ hit = FALSE /\ tasks = <<>> /\ deadline = 0
    /\ waited = 0 /\ results = <<>> /\ best_idx = 0 /\ ret = None

\* source.search(title, artist) when the service has a match
AdapterSearch ==
    /\ pc = "search"
    /\ ret' = Found(input[1], "Album",
                    SearchConfidence(input[1], input[2], input[3], artist),
                    "url", NoneStr)
    /\ pc' = "searched"
    /\ UNCHANGED <<builtVars, cache, cache_before, title, artist, cache_key,
                   cache_ops, hit, tasks, deadline, waited, input, results,
                   best_idx>>

AdapterSpec == AdapterInit /\ [][AdapterSearch]_vars

(***************************************************************************)
(* MusicBrainzSource.search and its _retry_operation.  best_idx is the     *)
(* loop variable attempt, hit tells that the sleep of this attempt is      *)
(* over, waited is the time slept so far, tasks is the log of the          *)
(* attempts made, input is last_error, results holds the value             *)
(* _retry_operation returned and ret the value search returned.            *)
(***************************************************************************)
max_retries == 3
retry_delay == 1

\* _do_search returns the first recording, or None when there is none, or
\* raises
DoSearchOutcomes ==
    {[raised |-> FALSE, value |-> v, error |-> NoneStr] :
        v \in Catalog("musicbrainz") \cup {None}}
    \cup {[raised |-> TRUE, value |-> None, error |-> e] :
            e \in {"NetworkError", "ResponseError", "KeyError"}}

\* the seconds slept at the head of an iteration
RetrySleepAlways(attempt) == retry_delay * (attempt + 1)

RetrySleep(attempt) == IF attempt > 0 THEN retry_delay * attempt ELSE 0

RetryInit ==
    /\ TaggerBuilt
    /\ title = "Song"
    /\ artist \in {NoneStr, "Singer"}
    /\ pc = "retry"
    /\ best_idx = 0 /\ hit = FALSE /\ waited = 0 /\ tasks = <<>>
    /\ input = NoneStr /\ results = <<>> /\ ret = None
    /\ cache = <<>> /\ cache_before = <<>>
    /\ cache_key = NoneStr /\ cache_ops = <<>> /\ deadline = 0

\* await asyncio.sleep(self.retry_delay * attempt)
RetrySleepDone ==
    /\ pc = "retry" /\ ~hit
    /\ RetrySleep(best_idx) > 0
    /\ hit' = TRUE
    /\ waited' = waited + RetrySleep(best_idx)
    /\ UNCHANGED <<builtVars, cache, cache_before, title, artist, cache_key,
                   cache_ops, tasks, deadline, input, results, best_idx, ret,
                   pc>>

\* the task is cancelled while it sleeps: CancelledError is no Exception and
\* leaves _retry_operation and search
RetryCancelled ==
    /\ pc = "retry" /\ ~hit
    /\ RetrySleep(best_idx) > 0
    /\ pc' = "cancelled"
    /\ UNCHANGED <<builtVars, cache, cache_before, title, artist, cache_key,
                   cache_ops, tasks, deadline, input, results, best_idx, ret,
                   hit, waited>>

\* return await operation(), or the except branch and the next iteration,
\* or raise last_error after the last one
RetryOperation(outcome) ==
    /\ pc = "retry"
    /\ hit \/ RetrySleep(best_idx) = 0
    /\ tasks' = Append(tasks, [attempt |-> best_idx,
                               slept |-> IF hit THEN RetrySleep(best_idx) ELSE 0,
                               outcome |-> outcome])
    /\ IF ~outcome.raised
       THEN /\ results' = <<outcome.value>>
            /\ pc' = "retry_returned"
            /\ UNCHANGED <<input, best_idx, hit>>
       ELSE /\ input' = outcome.error
            /\ best_idx' = best_idx + 1
            /\ hit' = FALSE
            /\ pc' = IF best_idx + 1 < max_retries THEN "retry"
                     ELSE "retry_raised"
            /\ UNCHANGED results
    /\ UNCHANGED <<builtVars, cache, cache_before, title, artist, cache_key,
                   cache_ops, deadline, waited, ret>>

\* search returns what _retry_operation returned, or None from its except
\* branch
SearchReturn ==
    /\ pc \in {"retry_returned", "retry_raised"}
    /\ ret' = IF pc = "retry_returned" THEN results[1] ELSE None
    /\ pc' = "search_returned"
    /\ UNCHANGED <<builtVars, cache, cache_before, title, artist, cache_key,
                   cache_ops, tasks, deadline, waited, input, results,
                   best_idx, hit>>

RetryNext ==
    \/ RetrySleepDone
    \/ RetryCancelled
    \/ \E outcome \in DoSearchOutcomes : RetryOperation(outcome)
    \/ SearchReturn

\* a sleep ends, _do_search returns or raises, and a return is taken; a
\* cancellation need not happen
RetrySpec ==
    /\ RetryInit /\ [][RetryNext]_vars
    /\ WF_vars(RetrySleepDone)
    /\ WF_vars(\E outcome \in DoSearchOutcomes : RetryOperation(outcome))
    /\ WF_vars(SearchReturn)

(***************************************************************************)
(* _organize_file.  Paths are numbers: 0 is a path outside the target      *)
(* directory, 1 is the target path computed from the pattern, 1 + k is     *)
(* that path with "_k" appended to its stem.  cache is the file system, a  *)
(* function from paths to file contents, cache_before the file system at   *)
(* the call; input is source_path, deadline is target_path, best_idx is    *)
(* counter, hit tells whether dir_pattern names only known variables.      *)
(***************************************************************************)
MaxCopies == 3

Paths == 0..(MaxCopies + 1)

\* contents of a path: no file, a file cut short by a failed copy, or the
\* file that was at path p - 1 at the call
NoFile == 0
PartialFile == MaxCopies + 3
FileOf(p) == p + 1

\* target_path.exists() and source_path.exists()
PathExists(fs, p) == fs[p] # NoFile

\* the condition of the loop that appends the counter
KeepProbingOnce(fs, target_path) == PathExists(fs, target_path) /\ target_path = 1

KeepProbing(fs, target_path) == PathExists(fs, target_path)

\* shutil.move: os.rename; or, across file systems, copy2 and os.unlink
MoveOutcomes == {"ok", "failed", "partial_copy", "not_unlinked"}

ShutilMove(fs, src, dst, outcome) ==
    CASE outcome = "ok"           -> [fs EXCEPT ![dst] = fs[src], ![src] = NoFile]
      [] outcome = "failed"       -> fs
      [] outcome = "partial_copy" -> [fs EXCEPT ![dst] = PartialFile]
      [] outcome = "not_unlinked" -> [fs EXCEPT ![dst] = fs[src]]

\* the files at the call: any of the candidate paths but the last may be
\* taken; the file to organize lies outside the target directory or is one
\* of the files in it, or is gone
OrganizeInit ==
    /\ TaggerBuilt
    /\ cache \in {[p \in Paths |-> IF p \in taken THEN FileOf(p) ELSE NoFile] :
                    taken \in SUBSET (0..MaxCopies)}
    /\ cache_before = cache
    /\ input \in {p \in 0..MaxCopies : p = 0 \/ PathExists(cache, p)}
    /\ hit \in BOOLEAN
    /\ pc = "organize"
    /\ deadline = 0 /\ best_idx = 0
    /\ title = "Song" /\ artist = "Singer"
    /\ cache_key = NoneStr /\ cache_ops = <<>> /\ tasks = <<>>
    /\ waited = 0 /\ results = <<>> /\ ret = None

organizeVars ==
    <<builtVars, cache_before, input, hit, title, artist, cache_key,
      cache_ops, tasks, waited, results, ret>>

\* up to the loop: return when the source is gone, log the KeyError of
\* dir_pattern.format, else target_path and counter = 1
OrganizeBegin ==
    /\ pc = "organize"
    /\ IF ~PathExists(cache, input) THEN
            /\ pc' = "no_source"
            /\ UNCHANGED <<deadline, best_idx>>
       ELSE IF ~hit THEN
            /\ pc' = "logged"
            /\ UNCHANGED <<deadline, best_idx>>
       ELSE /\ deadline' = 1
            /\ best_idx' = 1
            /\ pc' = "probing"
    /\ UNCHANGED <<organizeVars, cache>>

\* one iteration of while target_path.exists()
OrganizeProbe ==
    /\ pc = "probing"
    /\ best_idx <= MaxCopies
    /\ KeepProbing(cache, deadline)
    /\ deadline' = 1 + best_idx
    /\ best_idx' = best_idx + 1
    /\ UNCHANGED <<organizeVars, cache, pc>>

\* shutil.move(source_path, target_path) after the loop; its exceptions
\* are logged
OrganizeMove(outcome) ==
    /\ pc = "probing"
    /\ ~KeepProbing(cache, deadline)
    /\ cache' = ShutilMove(cache, input, deadline, outcome)
    /\ pc' = IF outcome = "ok" THEN "moved" ELSE "logged"
    /\ UNCHANGED <<organizeVars, deadline, best_idx>>

OrganizeNext ==
    \/ OrganizeBegin
    \/ OrganizeProbe
    \/ \E outcome \in MoveOutcomes : OrganizeMove(outcome)

OrganizeSpec == OrganizeInit /\ [][OrganizeNext]_vars

(***************************************************************************)
(* process_directory.  input is the list of music files, one record per    *)
(* file telling whether parse_filename finds a title; cache is             *)
(* file_status.status_data seen through is_file_processed, per file:       *)
(* "match" (an entry with the file's mtime and size), "stale" (an entry    *)
(* with other values) or "absent"; results holds organize_files; hit       *)
(* tells that self.session is open; best_idx is the position in the loop;  *)
(* tasks records per file what was done to it.                             *)
(***************************************************************************)
MaxFiles == 2

\* file_status.is_file_processed once os.stat has returned
IsFileProcessedNever(status) == FALSE

IsFileProcessed(status) == status = "match"

Untouched ==
    [skipped |-> FALSE, resolves |-> 0, found |-> FALSE, processed |-> FALSE,
     tagged |-> FALSE, recorded |-> FALSE, moved |-> FALSE]

DirInit ==
    /\ TaggerBuilt
    /\ \E n \in 0..MaxFiles :
          /\ input \in [1..n -> [has_title : BOOLEAN]]
          /\ cache \in [1..n -> {"match", "stale", "absent"}]
          /\ tasks = [i \in 1..n |-> Untouched]
    /\ cache_before = cache
    /\ results \in {<<TRUE>>, <<FALSE>>}
    /\ hit = FALSE
    /\ pc = "start"
    /\ best_idx = 0
    /\ title = NoneStr /\ artist = NoneStr /\ cache_key = NoneStr
    /\ cache_ops = <<>> /\ deadline = 0 /\ waited = 0 /\ ret = None

dirVars ==
    <<builtVars, cache_before, input, results, title, artist, cache_key,
      cache_ops, deadline, waited, ret>>

\* the head of the for loop: the next file, or save_status after the last
NextFile == IF best_idx < Len(input) THEN "file" ELSE "save"

\* await self.initialize(), _get_music_files, return when there is none
DirBegin ==
    /\ pc = "start"
    /\ hit' = TRUE
    /\ pc' = IF Len(input) = 0 THEN "closing" ELSE "file"
    /\ UNCHANGED <<dirVars, cache, tasks, best_idx>>

\* is_file_processed and parse_filename for the next file; os.stat can
\* raise
DirCheck(stat) ==
    /\ pc = "file"
    /\ best_idx' = best_idx + 1
    /\ IF stat = "raised" THEN
            /\ pc' = "closing_raised"
            /\ UNCHANGED tasks
       ELSE IF IsFileProcessed(cache[best_idx + 1]) THEN
            /\ tasks' = [tasks EXCEPT ![best_idx + 1].skipped = TRUE]
            /\ pc' = IF best_idx + 1 < Len(input) THEN "file" ELSE "save"
       ELSE IF ~input[best_idx + 1].has_title THEN
            /\ pc' = IF best_idx + 1 < Len(input) THEN "file" ELSE "save"
            /\ UNCHANGED tasks
       ELSE /\ pc' = "resolve"
            /\ UNCHANGED tasks
    /\ UNCHANGED <<dirVars, cache, hit>>

\* metadata = await self.search_track_info(title, artist)
DirResolve(outcome) ==
    /\ pc = "resolve"
    /\ tasks' = [tasks EXCEPT ![best_idx].resolves = @ + 1,
                              ![best_idx].found = (outcome = "found")]
    /\ pc' = CASE outcome = "found"  -> "process"
               [] outcome = "none"   -> NextFile
               [] outcome = "raised" -> "closing_raised"
    /\ UNCHANGED <<dirVars, cache, hit, best_idx>>

\* await self.process_file(file_path_str): it resolves again, writes the
\* tags and returns True, or returns False
DirProcessFile(outcome) ==
    /\ pc = "process"
    /\ tasks' = [tasks EXCEPT ![best_idx].resolves = @ + 1,
                              ![best_idx].tagged = (outcome = "tagged"),
                              ![best_idx].processed = (outcome = "tagged")]
    /\ pc' = IF outcome = "tagged" THEN "update" ELSE NextFile
    /\ UNCHANGED <<dirVars, cache, hit, best_idx>>

\* self.file_status.update_file_status(...); os.stat can raise
DirUpdate(stat) ==
    /\ pc = "update"
    /\ IF stat = "raised" THEN
            /\ pc' = "closing_raised"
            /\ UNCHANGED <<cache, tasks>>
       ELSE /\ cache' = [cache EXCEPT ![best_idx] = "match"]
            /\ tasks' = [tasks EXCEPT ![best_idx].recorded = TRUE]
            /\ pc' = IF results[1] THEN "organize" ELSE NextFile
    /\ UNCHANGED <<dirVars, hit, best_idx>>

\* await self._organize_file(file_path_str, metadata)
DirOrganize(outcome) ==
    /\ pc = "organize"
    /\ tasks' = [tasks EXCEPT ![best_idx].moved = (outcome = "ok")]
    /\ pc' = NextFile
    /\ UNCHANGED <<dirVars, cache, hit, best_idx>>

\* await self.file_status.save_status()
DirSave ==
    /\ pc = "save"
    /\ pc' = "closing"
    /\ UNCHANGED <<dirVars, cache, tasks, hit, best_idx>>

\* finally: await self.close()
DirClose ==
    /\ pc \in {"closing", "closing_raised"}
    /\ hit' = FALSE
    /\ pc' = IF pc = "closing" THEN "returned" ELSE "dir_raised"
    /\ UNCHANGED <<dirVars, cache, tasks, best_idx>>

DirNext ==
    \/ DirBegin
    \/ \E stat \in {"ok", "raised"} : DirCheck(stat)
    \/ \E outcome \in {"found", "none", "raised"} : DirResolve(outcome)
    \/ \E outcome \in {"tagged", "failed"} : DirProcessFile(outcome)
    \/ \E stat \in {"ok", "raised"} : DirUpdate(stat)
    \/ \E outcome \in MoveOutcomes : DirOrganize(outcome)
    \/ DirSave
    \/ DirClose

DirSpec == DirInit /\ [][DirNext]_vars

(***************************************************************************)
(* Two calls of search_track_info for the same query on one event loop.    *)
(* pc, cache_ops, hit, tasks, waited and ret hold one value per call;      *)
(* input is the list of the Cache.set calls made, in the order they were   *)
(* made; best_idx counts the calls that began while the other one was      *)
(* waiting for its adapters.  A call runs without suspension up to its     *)
(* wait_for, and again from the end of the gather to its return.           *)
(***************************************************************************)
Calls == {1, 2}

\* "for source in self.sources: tasks.append(asyncio.create_task(...))"
CreateTasks(srcs) == [i \in 1..Len(srcs) |-> PendingTask]

ConcInit ==
    /\ config \in {UserConfig, MutedConfig}
    /\ sources = InitializeSources(config)
    /\ cache = [k \in CacheKeys |-> Missing]
    /\ cache_before = cache
    /\ now = 0
    /\ won = [k \in CacheKeys |-> None]
    /\ title = "Song" /\ artist = "Singer"
    /\ cache_key = CreateCacheKey(title, artist)
    /\ deadline = SearchTimeout(config)
    /\ pc = <<"idle", "idle">>
    /\ cache_ops = <<<<>>, <<>>>>
    /\ hit = <<FALSE, FALSE>>
    /\ tasks = <<<<>>, <<>>>>
    /\ waited = <<0, 0>>
    /\ ret = <<None, None>>
    /\ input = <<>>
    /\ results = <<>>
    /\ best_idx = 0

concVars ==
    <<config, sources, now, won, title, artist, cache_key, deadline,
      cache_before, results>>

\* call c up to its first suspension, as Begin
ConcBegin(c, unlink) ==
    /\ pc[c] = "idle"
    /\ best_idx' = best_idx + (IF pc[3 - c] = "waiting" THEN 1 ELSE 0)
    /\ cache_ops' = [cache_ops EXCEPT ![c] = <<"get">>]
    /\ cache' = CacheGetFiles(cache, cache_key, now, unlink)
    /\ LET cached == CacheGetValue(cache, cache_key, now)
       IN  IF CacheGetRaises(cache, cache_key, now, unlink)
           THEN /\ pc' = [pc EXCEPT ![c] = "raised"]
                /\ UNCHANGED <<ret, hit, tasks>>
           ELSE IF CacheHit(cached)
           THEN /\ pc' = [pc EXCEPT ![c] = "done"]
                /\ ret' = [ret EXCEPT ![c] = FromCache(cached)]
                /\ hit' = [hit EXCEPT ![c] = TRUE]
                /\ UNCHANGED tasks
           ELSE /\ pc' = [pc EXCEPT ![c] = "waiting"]
                /\ tasks' = [tasks EXCEPT ![c] = CreateTasks(sources)]
                /\ UNCHANGED <<ret, hit>>
    /\ UNCHANGED <<concVars, waited, input>>

\* the search of adapter i of call c ends before the deadline of the call
ConcAdapterFinish(c, i, outcome) ==
    /\ pc[c] = "waiting"
    /\ i \in 1..Len(tasks[c])
    /\ tasks[c][i].st = "pending"
    /\ waited[c] < deadline
    /\ tasks' = [tasks EXCEPT ![c][i] =
                    [st |-> "done", value |-> SafeSearch(outcome),
                     raised |-> outcome.kind = "raised",
                     order |-> Completed(tasks[c]) + 1]]
    /\ UNCHANGED <<concVars, cache, pc, cache_ops, hit, waited, ret, input,
                   best_idx>>

\* a call whose timer has not fired while a task of it is outstanding
Outstanding(c) ==
    /\ pc[c] = "waiting"
    /\ \E i \in 1..Len(tasks[c]) : tasks[c][i].st = "pending"

\* time passes for every call that waits
ConcWaitTick ==
    /\ \E c \in Calls : Outstanding(c)
    /\ \A c \in Calls : Outstanding(c) => waited[c] < deadline
    /\ waited' = [c \in Calls |->
                    IF pc[c] = "waiting" THEN waited[c] + WaitStep
                    ELSE waited[c]]
    /\ UNCHANGED <<concVars, cache, pc, cache_ops, hit, tasks, ret, input,
                   best_idx>>

\* the gather of call c is complete: as GatherDone
ConcGatherDone(c, outcome) ==
    /\ pc[c] = "waiting"
    /\ \A i \in 1..Len(tasks[c]) : tasks[c][i].st = "done"
    /\ LET collected == CollectResults(GatherValues(tasks[c]))
           best == SelectBestResult(config, collected)
       IN  IF collected = <<>> \/ BelowThreshold(config, best)
           THEN /\ ret' = [ret EXCEPT ![c] = None]
                /\ UNCHANGED <<cache, cache_ops, input>>
           ELSE /\ cache' = CacheSetFiles(cache, cache_key, CachePayload(best),
                                          now, outcome)
                /\ cache_ops' = [cache_ops EXCEPT ![c] = Append(@, "set")]
                /\ input' = Append(input, [call |-> c, outcome |-> outcome])
                /\ ret' = [ret EXCEPT ![c] = best]
    /\ pc' = [pc EXCEPT ![c] = "done"]
    /\ UNCHANGED <<concVars, hit, tasks, waited, best_idx>>

\* the timer of call c fires: as Timeout
ConcTimeout(c) ==
    /\ Outstanding(c)
    /\ waited[c] >= deadline
    /\ tasks' = [tasks EXCEPT ![c] = CancelOutstanding(@)]
    /\ ret' = [ret EXCEPT ![c] = None]
    /\ pc' = [pc EXCEPT ![c] = "done"]
    /\ UNCHANGED <<concVars, cache, cache_ops, hit, waited, input, best_idx>>

ConcNext ==
    \/ \E c \in Calls : \E u \in UnlinkOutcomes : ConcBegin(c, u)
    \/ \E c \in Calls : \E i \in 1..Len(sources) :
          \E o \in SearchOutcomes(sources[i]) : ConcAdapterFinish(c, i, o)
    \/ ConcWaitTick
    \/ \E c \in Calls : \E o \in SetOutcomes : ConcGatherDone(c, o)
    \/ \E c \in Calls : ConcTimeout(c)

ConcSpec == ConcInit /\ [][ConcNext]_vars

(***************************************************************************)
(* Properties                                                              *)
(***************************************************************************)
\* the fields a cache entry keeps of a candidate
SameFields(m, c) ==
    /\ m.title = c.title /\ m.artist = c.artist /\ m.album = c.album
    /\ m.confidence = c.confidence /\ m.source = c.source
    /\ m.release_id = c.release_id /\ m.cover_url = c.cover_url

TimedOut == \E i \in 1..Len(tasks) : tasks[i].st = "cancelled"

\* C1: when the deadline expires with one adapter done with a candidate at or
\* above the threshold and the other still outstanding, the call returns the
\* candidate of the adapter that finished
C1_FinishedAdapterContributes ==
    (pc = "done" /\ Len(tasks) = 2) =>
        \A i, j \in 1..Len(tasks) :
            ( /\ tasks[i].st = "done" /\ tasks[i].value # None
              /\ tasks[i].value.confidence >= MinConfidence(config)
              /\ tasks[j].st = "cancelled" )
            => (ret # None /\ SameFields(ret, tasks[i].value))

\* C2 as stated: in any call with two or more adapters, when an adapter
\* raises, every other task runs to completion and its candidate is in the
\* list handed to selection, and the raising adapter contributes nothing
C2_ExceptionIsolation ==
    (pc = "done" /\ Len(tasks) >= 2) =>
        \A i \in 1..Len(tasks) : tasks[i].raised =>
            /\ \A c \in Range(input) : c.source # sources[i]
            /\ \A j \in 1..Len(tasks) \ {i} :
                  /\ tasks[j].st = "done"
                  /\ tasks[j].value # None => tasks[j].value \in Range(input)

\* C2 as amended: the same for the calls whose deadline does not expire; in
\* every call the raising adapter contributes nothing and what the call
\* returns is None or a candidate, never the exception
C2_ExceptionIsolationBeforeDeadline ==
    (pc = "done" /\ Len(tasks) >= 2) =>
        /\ ret # PyException
        /\ \A i \in 1..Len(tasks) : tasks[i].raised =>
              /\ tasks[i].value = None
              /\ \A c \in Range(input) : c.source # sources[i]
              /\ ~TimedOut =>
                    \A j \in 1..Len(tasks) \ {i} :
                       /\ tasks[j].st = "done"
                       /\ tasks[j].value # None => tasks[j].value \in Range(input)

C2_Witness ==
    /\ pc = "done" /\ Len(tasks) = 2
    /\ tasks[1].raised /\ tasks[2].st = "done" /\ tasks[2].value # None
    /\ input = <<tasks[2].value>>
    /\ ret # None

RankedFirst(scored, i) ==
    /\ \A j \in 1..Len(scored) :
          ~FLess(scored[i].weighted_score, scored[j].weighted_score)
    /\ \A j \in 1..(i - 1) :
          FLess(scored[j].weighted_score, scored[i].weighted_score)

\* C4: when the candidate ranked first by weighted score has a raw
\* confidence below min_confidence the call returns None, whatever its
\* weighted score
C4_ThresholdOnRawConfidence ==
    pc = "done" =>
        \A i \in 1..Len(results) :
            (RankedFirst(results, i)
                /\ results[i].confidence < MinConfidence(config))
            => ret = None

C4_Witness ==
    /\ pc = "done" /\ Len(results) = 2
    /\ \E i \in 1..2 :
          /\ RankedFirst(results, i)
          /\ results[i].confidence < MinConfidence(config)
          /\ ~FLess(results[i].weighted_score, FromInt(MinConfidence(config)))
          /\ FLess(results[3 - i].weighted_score, results[i].weighted_score)
          /\ ~FLess(SelectWeight(config, results[i].source), F2_0)
    /\ ret = None

\* C5: of two candidates that differ only in source, the one whose source
\* has the higher configured weight is selected, in either order
C5_HigherWeightWins ==
    (pc = "selected" /\ Len(input) = 2) =>
        \A i \in 1..2 :
            ( /\ input[i].confidence > 0
              /\ [input[i] EXCEPT !.source = input[3 - i].source] = input[3 - i]
              /\ FLess(AdapterWeight(config, input[3 - i].source),
                       AdapterWeight(config, input[i].source)) )
            => ret.source = input[i].source

\* the score of a candidate under source weight w: confidence x w, x 1.1
\* for an album, x 1.1 for a cover or a release
ScoreWith(w, r) ==
    LET base == FMul(FromInt(r.confidence), w)
        hasAlbum == r.album # ""
        hasCover == StrTruthy(r.cover_url) \/ StrTruthy(r.release_id)
    IN  CASE hasAlbum /\ hasCover   -> FMul(FMul(base, F1_1), F1_1)
          [] hasAlbum /\ ~hasCover  -> FMul(base, F1_1)
          [] ~hasAlbum /\ hasCover  -> FMul(base, F1_1)
          [] OTHER                  -> base

\* C6: the weight multiplied into a candidate's score is the entry of its
\* source in global.source_weights, the weight its adapter was built with,
\* and 1.0 when there is no entry
C6_WeightFromGlobalSourceWeights ==
    pc = "selected" =>
        \A i \in 1..Len(results) :
            results[i].weighted_score =
                ScoreWith(AdapterWeight(config, results[i].source), results[i])

\* C7: the deadline of the fan-out is global.search_timeout, 30 when unset
C7_DeadlineFromGlobalSearchTimeout ==
    pc = "waiting" =>
        deadline = ConfigGet(config, <<"global", "search_timeout">>,
                             PyInt(default_search_timeout)).n

\* C8: a call without a title returns None, derives no cache key, makes no
\* Cache call, leaves the cache files alone and creates no adapter task
C8_EmptyTitleShortCircuits ==
    (pc = "done" /\ ~StrTruthy(title)) =>
        /\ ret = None
        /\ cache_key = NoneStr
        /\ cache_ops = <<>>
        /\ tasks = <<>>

C8_Witness == pc = "done" /\ title = "" /\ ret = None /\ cache_ops = <<>>

\* C9: the selected candidate has the maximal weighted score, is the first
\* such candidate of the list, and the list keeps its order
C9_FirstMaximumSelected ==
    (pc = "selected" /\ input # <<>>) =>
        /\ best_idx \in 1..Len(input)
        /\ ret = results[best_idx]
        /\ RankedFirst(results, best_idx)
        /\ Len(results) = Len(input)
        /\ \A j \in 1..Len(input) :
              /\ [results[j] EXCEPT !.weighted_score = FZero] = input[j]
              /\ results[j].weighted_score =
                    ScoreWith(SelectWeight(config, input[j].source), input[j])

C9_Witness ==
    /\ pc = "selected" /\ Len(input) = 2
    /\ input[1] # input[2]
    /\ results[1].weighted_score = results[2].weighted_score
    /\ best_idx = 1 /\ ret = results[1]

\* C10 as stated: with an album and a cover or release the score is
\* confidence x weight x 1.21
C10_BothBonusesExactly121 ==
    pc = "selected" =>
        \A i \in 1..Len(results) :
            ( /\ results[i].album # ""
              /\ (StrTruthy(results[i].cover_url) \/ StrTruthy(results[i].release_id)) )
            => results[i].weighted_score =
                  FMul(FMul(FromInt(results[i].confidence),
                            SelectWeight(config, results[i].source)), F1_21)

\* C10 as amended: with both bonus conditions the score is confidence x
\* weight, times 1.1, times 1.1, each product rounded to a double; with one
\* condition it is times 1.1 once, with none it is confidence x weight; a
\* cover and a release together count once
C10_BonusesCompoundByRoundedProducts ==
    pc = "selected" =>
        \A i \in 1..Len(results) :
            results[i].weighted_score =
                ScoreWith(SelectWeight(config, results[i].source), results[i])

C10_Witness ==
    /\ pc = "selected"
    /\ \E i \in 1..Len(results) :
          /\ results[i].album # ""
          /\ StrTruthy(results[i].cover_url) /\ StrTruthy(results[i].release_id)
          /\ results[i].weighted_score #
                FMul(FMul(FromInt(results[i].confidence),
                          SelectWeight(config, results[i].source)), F1_21)
\* the seven keys of the payload of a candidate
PayloadKeys == RebuildKeys \cup {"release_id", "cover_url"}

\* C11 as stated: when the call returns None, the cache files are what they
\* were when the call started
C11_AbsentLeavesCacheAsItWas ==
    (pc = "done" /\ ret = None) => cache = cache_before

\* C11 as amended: a call that returns None writes no entry: Cache.set is not
\* called, every file is what it was when the call started except that the
\* file of the query's key is removed when the read found it expired or not
\* an entry, and an identical call at any later time fans out again
C11_AbsentWritesNoEntry ==
    (pc = "done" /\ ret = None) =>
        /\ \A i \in 1..Len(cache_ops) : cache_ops[i] # "set"
        /\ \A k \in CacheKeys :
              \/ cache[k] = cache_before[k]
              \/ /\ k = cache_key
                 /\ cache[k] = Missing
                 /\ CacheGetBranch(cache_before[k], now) = "unlink"
        /\ cache_key # NoneStr =>
              \A t \in now..MaxNow :
                  ~CacheHit(CacheGetValue(cache, cache_key, t))

C11_Witness ==
    /\ pc = "done" /\ ret = None /\ cache_key # NoneStr
    /\ "content" \in DOMAIN cache_before[cache_key]
    /\ DOMAIN cache_before[cache_key].content = PayloadKeys
    /\ now - cache_before[cache_key].timestamp > expire_days
    /\ cache[cache_key] = Missing
    /\ \E i \in 1..Len(tasks) : tasks[i].st = "done" /\ tasks[i].value # None

\* C12 as stated: when the call returns a winner of the fan-out, the file of
\* the query's key is the entry stamped now that holds the winner's fields
C12_WinnerIsInCache ==
    (pc = "done" /\ ret # None /\ ~hit) =>
        /\ "content" \in DOMAIN cache[cache_key]
        /\ cache[cache_key].timestamp = now
        /\ DOMAIN cache[cache_key].content = PayloadKeys
        /\ SameFields(cache[cache_key].content, ret)

\* an entry the tagger wrote: its source is one of the adapters
WrittenByResolve(f) ==
    /\ "content" \in DOMAIN f
    /\ f.content \notin ForeignPayloads

\* C12 as amended: when the call returns a winner of the fan-out, Cache.set
\* was called before the return; the file of the query's key is then the
\* entry stamped now that holds exactly the winner's seven fields or, the
\* write having failed, the file the read left or a corrupt file; no other
\* file changed.  In every state an entry the tagger wrote holds the seven
\* fields of a candidate of an adapter whose confidence is at least
\* min_confidence
C12_WinnerIsInCacheIfWritten ==
    /\ (pc = "done" /\ ret # None /\ ~hit) =>
          /\ cache_ops = <<"get", "set">>
          /\ \/ /\ "content" \in DOMAIN cache[cache_key]
                /\ cache[cache_key].timestamp = now
                /\ DOMAIN cache[cache_key].content = PayloadKeys
                /\ SameFields(cache[cache_key].content, ret)
             \/ cache[cache_key] = Corrupt
             \/ /\ cache[cache_key] # Corrupt
                /\ \E u \in UnlinkOutcomes :
                      cache[cache_key] =
                          CacheGetFiles(cache_before, cache_key, now, u)[cache_key]
          /\ \A k \in CacheKeys \ {cache_key} : cache[k] = cache_before[k]
    /\ \A k \in CacheKeys :
          WrittenByResolve(cache[k]) =>
              /\ DOMAIN cache[k].content = PayloadKeys
              /\ cache[k].content.confidence >= MinConfidence(config)
              /\ \E i \in 1..Len(sources) : \E c \in Catalog(sources[i]) :
                    SameFields(cache[k].content, c)

C12_Witness ==
    /\ pc = "done" /\ ret # None /\ ~hit /\ cache_key # NoneStr
    /\ cache_before[cache_key] = Entry(0, MalformedPayload)
    /\ "content" \in DOMAIN cache[cache_key]
    /\ cache[cache_key].timestamp = now
    /\ DOMAIN cache[cache_key].content = PayloadKeys
    /\ SameFields(cache[cache_key].content, ret)
    /\ ret.cover_url = "url"
\* C13: whenever Cache.get returns a payload for the query's key, the call
\* returns a candidate from the cache and creates no adapter task
C13_CacheHitContactsNoAdapter ==
    ( /\ pc \in {"waiting", "done"} /\ cache_key # NoneStr
      /\ CacheGetValue(cache_before, cache_key, now) # None )
    => (pc = "done" /\ hit /\ ret # None /\ tasks = <<>>)

\* C19: no exception leaves search_track_info
C19_NoExceptionEscapes == pc # "raised"

\* C20: once the call is over no task is outstanding; a task cancelled at
\* the deadline has no value, the call it belonged to returns None without
\* raising, hands nothing to selection and does not call Cache.set; a
\* candidate a fan-out returns is the value of a task that finished, and no
\* task outlives its call
C20_OutstandingTasksCancelled ==
    /\ pc = "idle" => tasks = <<>>
    /\ pc = "raised" => tasks = <<>>
    /\ pc = "done" =>
          /\ \A i \in 1..Len(tasks) :
                /\ tasks[i].st \in {"done", "cancelled"}
                /\ tasks[i].st = "cancelled" =>
                      /\ tasks[i].value = None
                      /\ ret = None /\ input = <<>> /\ results = <<>>
                      /\ cache_ops = <<"get">>
                      /\ \E u \in UnlinkOutcomes :
                            cache = CacheGetFiles(cache_before, cache_key, now, u)
          /\ (ret # None /\ ~hit) =>
                \E i \in 1..Len(tasks) :
                    /\ tasks[i].st = "done" /\ tasks[i].value # None
                    /\ SameFields(ret, tasks[i].value)

C20_Witness ==
    /\ pc = "done" /\ Len(tasks) = 2 /\ waited >= deadline
    /\ tasks[1].st = "cancelled"
    /\ tasks[2].st = "done" /\ tasks[2].value # None
    /\ tasks[2].value.confidence = 95
    /\ ret = None /\ cache = cache_before
\* the stored file is an entry that has not expired
Fresh(f, time) == "content" \in DOMAIN f /\ time - f.timestamp <= expire_days

\* C14: a get of an entry older than expire_days returns None and removes
\* the file; a get of an entry not older than that returns its content and
\* leaves the files alone
C14_ExpiredEntryRemovedOnRead ==
    (pc \in {"got", "get_raised"} /\ "content" \in DOMAIN cache_before[cache_key]) =>
        IF now - cache_before[cache_key].timestamp > expire_days
        THEN pc = "got" /\ ret = None /\ cache[cache_key] = Missing
        ELSE /\ pc = "got" /\ ret = cache_before[cache_key].content
             /\ cache = cache_before

\* C15: for a file that is unreadable, not JSON or without timestamp or
\* content, get returns None and removes the file; a value get returns is
\* the seven-key payload of an entry that has not expired
C15_NeverServesStaleOrMalformed ==
    pc \in {"got", "get_raised"} =>
        /\ ("content" \notin DOMAIN cache_before[cache_key]
                /\ cache_before[cache_key] # Missing)
           => (pc = "got" /\ ret = None /\ cache[cache_key] = Missing)
        /\ (pc = "got" /\ ret # None) =>
              /\ DOMAIN ret = PayloadKeys
              /\ Fresh(cache_before[cache_key], now)
              /\ ret = cache_before[cache_key].content

\* C16: a successful set leaves, whatever file was there, the entry stamped
\* now with the payload given, and no other file changes; a get of the key
\* at any time up to expire_days later returns exactly that payload, and a
\* get of an entry that has not expired returns its content
C16_SetOverwritesUnconditionally ==
    /\ pc = "set_ok" =>
          /\ cache[cache_key] = Entry(now, input[1])
          /\ \A k \in CacheSpecKeys \ {cache_key} : cache[k] = cache_before[k]
          /\ \A t \in now..(now + expire_days) : \A u \in UnlinkOutcomes :
                /\ ~CacheGetRaises(cache, cache_key, t, u)
                /\ CacheGetValue(cache, cache_key, t) = input[1]
                /\ CacheGetFiles(cache, cache_key, t, u) = cache
    /\ (pc \in {"got", "get_raised"} /\ Fresh(cache_before[cache_key], now)) =>
          /\ pc = "got"
          /\ ret = cache_before[cache_key].content
          /\ cache = cache_before

C16_Witness ==
    /\ pc = "set_ok" /\ now > 0
    /\ "content" \in DOMAIN cache_before[cache_key]
    /\ cache_before[cache_key].content \in SetPayloads
    /\ cache_before[cache_key].content # input[1]
    /\ Fresh(cache_before[cache_key], now)
    /\ cache[cache_key] = Entry(now, input[1])

\* C17: a set that fails leaves every file as it was
C17_FailedSetChangesNothing ==
    pc \in {"set_open_failed", "set_dump_failed"} => cache = cache_before

\* C18: get returns a payload or None and never raises
C18_GetNeverRaises == pc # "get_raised"
\* C22: with no adapter the call that misses the cache arms no deadline,
\* does not wait, returns None and writes nothing
C22_NoAdapterNoTimer ==
    (pc \in {"waiting", "done"} /\ cache_key # NoneStr /\ ~hit
        /\ Len(sources) = 0) =>
        /\ deadline = 0 /\ waited = 0
        /\ pc = "done" => (ret = None /\ cache_ops = <<"get">>)

\* the place of a source in self.sources
SourceIndex(source) == CHOOSE i \in 1..Len(sources) : sources[i] = source

\* C24: when the gather returns, the list handed to selection holds the
\* candidates of the tasks in the order of self.sources, whatever the order
\* in which the tasks completed, and what the call returns is fixed by that
\* list: None, or the first candidate of maximal weighted score
C24_RegistrationOrder ==
    (pc = "done" /\ ~hit /\ tasks # <<>> /\ ~TimedOut) =>
        /\ \A i \in 1..Len(tasks) :
              tasks[i].value # None =>
                  \E k \in 1..Len(input) :
                      input[k] = tasks[i].value /\ input[k].source = sources[i]
        /\ \A k \in 1..Len(input) :
              tasks[SourceIndex(input[k].source)].value = input[k]
        /\ \A k, l \in 1..Len(input) :
              k < l => SourceIndex(input[k].source) < SourceIndex(input[l].source)
        /\ input # <<>> =>
              /\ RankedFirst(results, best_idx)
              /\ ret \in {None, results[best_idx]}

C24_Witness ==
    /\ pc = "done" /\ ~hit /\ Len(tasks) = 2
    /\ tasks[2].order = 1 /\ tasks[1].order = 2
    /\ Len(input) = 2
    /\ input[1].source = sources[1] /\ input[2].source = sources[2]
    /\ results[1].weighted_score = results[2].weighted_score
    /\ best_idx = 1

\* C25: a candidate the call returns has a confidence of at least
\* min_confidence
C25_ReturnedAtOrAboveThreshold ==
    (pc = "done" /\ ret # None) => ret.confidence >= MinConfidence(config)

\* C26: the call returns None or the candidate ranked first by weighted
\* score, never another one; it returns None exactly when that candidate's
\* confidence is below min_confidence
C26_NoFallbackBelowTopRank ==
    (pc = "done" /\ ~hit /\ results # <<>>) =>
        /\ best_idx \in 1..Len(results)
        /\ RankedFirst(results, best_idx)
        /\ ret \in {None, results[best_idx]}
        /\ ret = None <=> results[best_idx].confidence < MinConfidence(config)

C26_Witness ==
    /\ pc = "done" /\ ~hit /\ Len(results) = 2
    /\ \E i \in 1..2 :
          /\ best_idx = i
          /\ results[i].confidence < MinConfidence(config)
          /\ results[3 - i].confidence >= MinConfidence(config)
    /\ ret = None
\* C23: the confidence of the candidate an adapter returns is the mean of
\* the title similarity and the artist similarity, the latter 100 for a
\* query without artist
C23_ConfidenceIsMeanOfRatios ==
    pc = "searched" =>
        2 * ret.confidence =
            input[2] + (IF StrTruthy(artist) THEN input[3] ELSE 100)

\* C27: two queries that differ have different keys, and what was stored
\* for one is not returned for the other
C27_KeysSeparateQueries ==
    (pc = "derived" /\ input[1] # input[2]) =>
        /\ results[1] # results[2]
        /\ ret = None
\* C28: _retry_operation makes at most max_retries attempts, none after an
\* attempt that returned, sleeps retry_delay * attempt before the second and
\* the third attempt only, returns the value of the attempt that returned,
\* raises the error of the last attempt after max_retries failures, which
\* search turns into None; and the loop ends
RetryLogAsSpecified ==
    /\ Len(tasks) <= max_retries
    /\ \A i \in 1..Len(tasks) :
          /\ tasks[i].attempt = i - 1
          /\ tasks[i].slept = (IF i = 1 THEN 0 ELSE retry_delay * (i - 1))
          /\ i < Len(tasks) => tasks[i].outcome.raised
    /\ pc = "retry" => Len(tasks) < max_retries
    /\ pc = "retry_returned" =>
          /\ ~tasks[Len(tasks)].outcome.raised
          /\ results = <<tasks[Len(tasks)].outcome.value>>
    /\ pc = "retry_raised" =>
          /\ Len(tasks) = max_retries
          /\ tasks[max_retries].outcome.raised
          /\ input = tasks[max_retries].outcome.error
    /\ pc = "search_returned" =>
          ret = (IF tasks[Len(tasks)].outcome.raised THEN None
                 ELSE tasks[Len(tasks)].outcome.value)

C28_RetryBoundedAndEnds ==
    /\ []RetryLogAsSpecified
    /\ <>(pc \in {"search_returned", "cancelled"})

\* the third attempt was made after sleeps of 1 and 2 seconds and failed,
\* and search returned None
C28_Witness ==
    /\ pc = "search_returned"
    /\ Len(tasks) = 3
    /\ waited = 3
    /\ tasks[3].outcome.raised
    /\ ret = None

\* the second attempt returned a candidate after one sleep
C28_ReturnsAtSecondAttempt ==
    /\ pc = "search_returned"
    /\ Len(tasks) = 2
    /\ waited = 1
    /\ ret # None
\* C30: every file that existed at the call, the source aside, is still
\* there with its content; the path moved to was free at the call and every
\* candidate path before it was taken; the source file stays where it was
\* unless the move succeeded
C30_NeverOverwrites ==
    /\ \A p \in Paths :
          (cache_before[p] # NoFile /\ p # input) => cache[p] = cache_before[p]
    /\ pc # "moved" => cache[input] = cache_before[input]
    /\ cache # cache_before =>
          /\ cache_before[deadline] = NoFile
          /\ \A p \in 1..(deadline - 1) : cache_before[p] # NoFile
    /\ pc = "moved" =>
          /\ cache[deadline] = cache_before[input]
          /\ cache[input] = NoFile

\* the target path and its _1 were taken and the file went to _2
C30_Witness ==
    /\ pc = "moved"
    /\ deadline = 3
    /\ cache_before[1] # NoFile /\ cache_before[2] # NoFile
    /\ cache[3] = cache_before[input]

\* a failed move after the counter was appended left the source in place
C30_FailedMoveKeepsSource ==
    /\ pc = "logged"
    /\ deadline = 2
    /\ cache[input] = cache_before[input] /\ cache[input] # NoFile
\* C29: a file whose recorded status matched at the call is never resolved,
\* tagged or moved; a status is recorded only for a file for which resolve
\* found a candidate and process_file returned True; and when
\* process_directory has returned or raised the session is closed
C29_SkipRecordClose ==
    /\ \A i \in 1..Len(input) :
          /\ cache_before[i] = "match" =>
                /\ tasks[i].resolves = 0
                /\ ~tasks[i].tagged
                /\ ~tasks[i].moved
                /\ ~tasks[i].recorded
          /\ tasks[i].recorded => (tasks[i].found /\ tasks[i].processed)
          /\ cache[i] # cache_before[i] => tasks[i].recorded
    /\ pc \in {"returned", "dir_raised"} => ~hit

\* the first file was skipped, the second resolved, tagged, recorded and
\* moved, and the session was closed at the return
C29_Witness ==
    /\ pc = "returned"
    /\ ~hit
    /\ Len(input) = 2
    /\ cache_before[1] = "match" /\ tasks[1].skipped
    /\ tasks[2].recorded /\ tasks[2].moved

\* process_directory raised in the middle of the loop and the session was
\* closed
C29_ClosedAfterRaise ==
    /\ pc = "dir_raised"
    /\ ~hit
    /\ Len(input) = 2
    /\ tasks[1].recorded
\* C21 (as stated): two overlapping calls for the same uncached query both
\* miss, both start one search per adapter and both write the cache entry,
\* and the entry that remains is the one of the later writer
BothDone == pc[1] = "done" /\ pc[2] = "done"

C21_BothWriteLastWins ==
    (best_idx = 1 /\ BothDone) =>
        /\ \A c \in Calls :
              /\ ~hit[c]
              /\ Len(tasks[c]) = Len(sources)
              /\ cache_ops[c] = <<"get", "set">>
        /\ Len(input) = 2
        /\ cache[cache_key] = Entry(now, CachePayload(ret[input[2].call]))

\* what a call returns, told from its own tasks alone
OwnResult(c) ==
    IF \E i \in 1..Len(tasks[c]) : tasks[c][i].st = "cancelled" THEN None
    ELSE LET collected == CollectResults(GatherValues(tasks[c]))
             best == SelectBestResult(config, collected)
         IN  IF collected = <<>> \/ BelowThreshold(config, best) THEN None
             ELSE best

\* the file the Cache.set calls made so far leave
RECURSIVE AfterSets(_, _)
AfterSets(files, sets) ==
    IF sets = <<>> THEN files
    ELSE AfterSets(
            CASE Head(sets).outcome = "ok" ->
                    [files EXCEPT ![cache_key] =
                        Entry(now, CachePayload(ret[Head(sets).call]))]
              [] Head(sets).outcome = "open_failed" -> files
              [] Head(sets).outcome = "dump_failed" ->
                    [files EXCEPT ![cache_key] = Corrupt],
            Tail(sets))

\* C21 (amended): two overlapping calls for the same uncached query both
\* miss and both start one search per adapter; neither raises, and each
\* returns what its own adapters gave it; a call writes the entry exactly
\* when it returns a candidate; the entry is the one of the last write that
\* succeeded, unless a later write failed while dumping
C21_NoDeduplication ==
    best_idx = 1 =>
        /\ \A c \in Calls :
              /\ pc[c] # "raised"
              /\ ~hit[c]
              /\ cache_ops[c][1] = "get"
              /\ Len(tasks[c]) = Len(sources)
              /\ pc[c] = "done" =>
                    /\ ret[c] = OwnResult(c)
                    /\ ("set" \in Range(cache_ops[c])) <=> (ret[c] # None)
        /\ cache = AfterSets(cache_before, input)
        /\ (input # <<>> /\ input[Len(input)].outcome = "ok") =>
              cache[cache_key] =
                  Entry(now, CachePayload(ret[input[Len(input)].call]))

\* both calls overlapped and wrote different candidates; the entry is the
\* one of the call that wrote last, which began first
C21_Witness ==
    /\ best_idx = 1 /\ BothDone
    /\ Len(input) = 2
    /\ input[1].outcome = "ok" /\ input[2].outcome = "ok"
    /\ ret[1] # ret[2]
    /\ cache_ops[1] = <<"get", "set">> /\ cache_ops[2] = <<"get", "set">>
    /\ cache[cache_key] = Entry(now, CachePayload(ret[input[2].call]))
    /\ cache[cache_key] # Entry(now, CachePayload(ret[input[1].call]))
====
